---- MODULE Spec2Model ----
(***************************************************************************)
(* Dynamic flux balance analysis notebook (documentation_builder/dfba).   *)
(*                                                                         *)
(* Quantities are fixed-point integers:                                    *)
(*   biomass   in units of 1/BiomassScale gDW/L                            *)
(*   glucose   in units of 1/GlucoseScale mM                               *)
(*   fluxes    on an integer grid (mmol/gDW/h, biomass flux in 1/10 1/h)   *)
(*   time      in ticks (one tick = one hour)                              *)
(* A flux bound is an exact rational <<numerator, denominator>>.           *)
(***************************************************************************)
EXTENDS Integers, Sequences, FiniteSets, TLC

VARIABLES model,     \* the shared cobra model object
          pbar,      \* dynamic_system.pbar
          trial,     \* the last evaluation of dynamic_system / infeasible_event
          y0,        \* initial state handed to solve_ivp
          status,    \* "idle", "running", "finished" (0), "event" (1), "failed" (-1)
          t,         \* solver time
          y,         \* solver state <<biomass, glucose>>
          g,         \* last value of the event function
          gs,        \* event values seen at the step end points
          sol_t,     \* recorded times       (sol.t)
          sol_y,     \* recorded states      (sol.y)
          t_events   \* recorded event times (sol.t_events[0]), as brackets

vars == <<model, pbar, trial, y0, status, t, y, g, gs, sol_t, sol_y, t_events>>
ivp  == <<y0, status, t, y, g, gs, sol_t, sol_y, t_events>>

---------------------------------------------------------------------------
(* Scales and bounds of the model *)

GlucoseScale == 10
BiomassScale == 100
EpsilonScale == 1000000

\* s_minus is enumerated on 0..SlackMax; s_plus follows from the balance
SlackMax == 1
\* the integrator takes steps of 1..MaxStep ticks
MaxStep == 2
\* step-size control rejects a step that overshoots glucose below -MaxUndershoot
MaxUndershoot == 15

---------------------------------------------------------------------------
(* Constants of the notebook *)

Vmax == 10      \* -10 * glucose / (5 + glucose)
Km == 5
epsilon == 1    \* 1E-6, in units of 1/EpsilonScale
direction_any == 1 - 1       \* direction = 0
direction_down == 0 - 1      \* direction = -1
direction == 1
terminal_false == FALSE      \* terminal = False
terminal == TRUE
T_END == 15

Max(S) == CHOOSE x \in S : \A z \in S : z <= x
Min(S) == CHOOSE x \in S : \A z \in S : x <= z

---------------------------------------------------------------------------
(* The metabolic network (stand-in for the 'textbook' core model):         *)
(*   glucose uptake (-EX_glc__D_e) + s_plus                                *)
(*        = ATPM + Biomass_Ecoli_core + s_minus                            *)

Maint == 2      \* lower bound of the maintenance reaction ATPM
AtpmUB == 3
BioUB == 3
GlcUB == 6

Model0 ==
  [ lower_bound |-> <<-10, 1>>,          \* of EX_glc__D_e
    upper_bound |-> GlcUB,               \* of EX_glc__D_e
    bounds      |-> [ ATPM |-> <<Maint, AtpmUB>>,
                      Biomass_Ecoli_core |-> <<0, BioUB>> ],
    objective   |-> [expression |-> "Biomass_Ecoli_core", direction |-> "max"],
    variables   |-> {},
    constraints |-> {},
    contexts    |-> <<>> ]

---------------------------------------------------------------------------
(* cobra.Model: context manager and the setters that record their undo *)

InContext(m) == Len(m.contexts) > 0

Record(m, entry) ==
  IF InContext(m)
  THEN [m EXCEPT !.contexts[Len(m.contexts)] = Append(@, entry)]
  ELSE m

UndoEntry(attr, m) ==
  [ attr |-> attr, lower_bound |-> m.lower_bound, objective |-> m.objective,
    variables |-> {}, constraints |-> {} ]

Enter(m) == [m EXCEPT !.contexts = Append(@, <<>>)]

Undo(m, u) ==
  CASE u.attr = "lower_bound" -> [m EXCEPT !.lower_bound = u.lower_bound]
    [] u.attr = "objective"   -> [m EXCEPT !.objective = u.objective]
    [] u.attr = "direction"   -> [m EXCEPT !.objective.direction = u.objective.direction]
    [] u.attr = "cons_vars"   -> [m EXCEPT !.variables = @ \ u.variables,
                                           !.constraints = @ \ u.constraints]
    [] u.attr = "removed"     -> [m EXCEPT !.constraints = @ \cup u.constraints]

RECURSIVE Reset(_, _)
Reset(m, hist) ==
  IF hist = <<>> THEN m
  ELSE Reset(Undo(m, hist[Len(hist)]), SubSeq(hist, 1, Len(hist) - 1))

Exit(m) ==
  LET hist == m.contexts[Len(m.contexts)]
      popped == [m EXCEPT !.contexts = SubSeq(@, 1, Len(@) - 1)]
  IN  Reset(popped, hist)

SetLowerBound(m, lb) ==
  [Record(m, UndoEntry("lower_bound", m)) EXCEPT !.lower_bound = lb]

SetObjective(m, expression) ==
  [Record(m, UndoEntry("objective", m)) EXCEPT !.objective.expression = expression]

SetObjectiveDirection(m, dir) ==
  [Record(m, UndoEntry("direction", m)) EXCEPT !.objective.direction = dir]

AddConsVars(m, vs, cs) ==
  [Record(m, [UndoEntry("cons_vars", m) EXCEPT !.variables = vs, !.constraints = cs])
     EXCEPT !.variables = @ \cup vs, !.constraints = @ \cup cs]

RemoveCons(m, name) ==
  LET gone == { c \in m.constraints : c.name = name }
  IN  IF gone = {} THEN m
      ELSE [Record(m, [UndoEntry("removed", m) EXCEPT !.constraints = gone])
              EXCEPT !.constraints = @ \ gone]

---------------------------------------------------------------------------
(* The LP of a model state, solved by enumeration of the flux grid *)

Relaxed(m) == {"s_plus", "s_minus"} \subseteq m.variables

SPlus(f) == f.glc + f.atpm + f.bio + f.s_minus

Value(expression, f) ==
  CASE expression = "Biomass_Ecoli_core" -> f.bio
    [] expression = "EX_glc__D_e"        -> f.glc
    [] expression = "feasibility"        -> SPlus(f) + f.s_minus

Satisfies(f, c) ==
  IF c.sense = "lb" THEN Value(c.expression, f) >= c.bound
                    ELSE Value(c.expression, f) <= c.bound

Fluxes(m) ==
  { f \in [ glc : (-Vmax)..GlcUB, atpm : Maint..AtpmUB, bio : 0..BioUB,
            s_minus : IF Relaxed(m) THEN 0..SlackMax ELSE {0} ] :
      /\ m.lower_bound[1] <= f.glc * m.lower_bound[2]
      /\ f.glc <= m.upper_bound
      /\ m.bounds.ATPM[1] <= f.atpm /\ f.atpm <= m.bounds.ATPM[2]
      /\ m.bounds.Biomass_Ecoli_core[1] <= f.bio
      /\ f.bio <= m.bounds.Biomass_Ecoli_core[2]
      /\ IF Relaxed(m) THEN SPlus(f) >= 0 ELSE SPlus(f) = 0
      /\ \A c \in m.constraints : Satisfies(f, c) }

slim_optimize(m) ==
  LET values == { Value(m.objective.expression, f) : f \in Fluxes(m) }
  IN  IF m.objective.direction = "max" THEN Max(values) ELSE Min(values)

---------------------------------------------------------------------------
(* cobra.util *)

add_lp_feasibility(m) ==
  LET added == AddConsVars(m, {"s_plus", "s_minus"}, {})
  IN  SetObjectiveDirection(SetObjective(added, "feasibility"), "min")

fix_objective_as_constraint(m) ==
  LET cleared == RemoveCons(m, m.objective.expression)
      bound == slim_optimize(cleared)
      constraint == [ name |-> m.objective.expression,
                      expression |-> m.objective.expression,
                      sense |-> IF m.objective.direction = "max" THEN "lb" ELSE "ub",
                      bound |-> bound ]
  IN  [ model |-> AddConsVars(cleared, {}, {constraint}), bound |-> bound ]

RECURSIVE add_lexicographic_constraints(_, _, _)
add_lexicographic_constraints(m, objectives, objective_direction) ==
  IF objectives = <<>> THEN [ model |-> m, values |-> <<>> ]
  ELSE LET m1 == SetObjectiveDirection(SetObjective(m, Head(objectives)),
                                       Head(objective_direction))
           fixed == fix_objective_as_constraint(m1)
           rest == add_lexicographic_constraints(fixed.model, Tail(objectives),
                                                 Tail(objective_direction))
       IN  [ model |-> rest.model, values |-> <<fixed.bound>> \o rest.values ]

---------------------------------------------------------------------------
(* The notebook's functions *)

\* -10 * glucose / 5 + glucose: the parentheses of the denominator lost
add_dynamic_bounds_no_parens(m, yy) ==
  LET glucose == yy[2]
      glucose_max_import == << -(Vmax * glucose) + Km * glucose, Km * GlucoseScale >>
  IN  SetLowerBound(m, glucose_max_import)

\* glucose_max_import = -10: the uptake limit without the saturation term
add_dynamic_bounds_no_saturation(m, yy) ==
  LET glucose_max_import == << -Vmax, 1 >>
  IN  SetLowerBound(m, glucose_max_import)

\* EX_glc__D_e.bounds = (glucose_max_import, 1000): the upper bound set as well
add_dynamic_bounds_both_bounds(m, yy) ==
  LET glucose == yy[2]
      glucose_max_import == << -(Vmax * glucose), Km * GlucoseScale + glucose >>
  IN  [SetLowerBound(m, glucose_max_import) EXCEPT !.upper_bound = 1000]

add_dynamic_bounds(m, yy) ==
  LET glucose == yy[2]
      glucose_max_import == << -(Vmax * glucose), Km * GlucoseScale + glucose >>
  IN  SetLowerBound(m, glucose_max_import)

\* the body run without "with model:"
dynamic_system_no_context(m, pb, tt, yy) ==
  LET biomass == yy[1]
      m1 == add_dynamic_bounds(m, yy)
      m2 == add_lp_feasibility(m1)
      fixed == fix_objective_as_constraint(m2)
      lex == add_lexicographic_constraints(
               fixed.model, <<"Biomass_Ecoli_core", "EX_glc__D_e">>, <<"max", "max">>)
      fluxes == [ i \in 1..2 |-> lex.values[i] * biomass ]
  IN  [ model |-> lex.model,
        inside |-> lex.model,
        feasibility |-> fixed.bound,
        pbar |-> IF pb.open THEN [pb EXCEPT !.n = @ + 1, !.desc = tt] ELSE pb,
        ret |-> fluxes ]

\* "glucose, biomass = y": the fluxes scaled by the wrong component
dynamic_system_scaled_by_glucose(m, pb, tt, yy) ==
  LET biomass == yy[2]
      m1 == add_dynamic_bounds(Enter(m), yy)
      m2 == add_lp_feasibility(m1)
      fixed == fix_objective_as_constraint(m2)
      lex == add_lexicographic_constraints(
               fixed.model, <<"Biomass_Ecoli_core", "EX_glc__D_e">>, <<"max", "max">>)
      fluxes == [ i \in 1..2 |-> lex.values[i] * biomass ]
  IN  [ model |-> Exit(lex.model),
        inside |-> lex.model,
        feasibility |-> fixed.bound,
        pbar |-> IF pb.open THEN [pb EXCEPT !.n = @ + 1, !.desc = tt] ELSE pb,
        ret |-> fluxes ]

\* the two objectives given in the other order
dynamic_system_glucose_first(m, pb, tt, yy) ==
  LET biomass == yy[1]
      m1 == add_dynamic_bounds(Enter(m), yy)
      m2 == add_lp_feasibility(m1)
      fixed == fix_objective_as_constraint(m2)
      lex == add_lexicographic_constraints(
               fixed.model, <<"EX_glc__D_e", "Biomass_Ecoli_core">>, <<"max", "max">>)
      fluxes == [ i \in 1..2 |-> lex.values[3 - i] * biomass ]
  IN  [ model |-> Exit(lex.model),
        inside |-> lex.model,
        feasibility |-> fixed.bound,
        pbar |-> IF pb.open THEN [pb EXCEPT !.n = @ + 1, !.desc = tt] ELSE pb,
        ret |-> fluxes ]

\* the feasibility value checked: no derivative at a state with an infeasible LP
dynamic_system_raises_infeasible(m, pb, tt, yy) ==
  LET biomass == yy[1]
      m1 == add_dynamic_bounds(Enter(m), yy)
      m2 == add_lp_feasibility(m1)
      fixed == fix_objective_as_constraint(m2)
      lex == add_lexicographic_constraints(
               fixed.model, <<"Biomass_Ecoli_core", "EX_glc__D_e">>, <<"max", "max">>)
      fluxes == [ i \in 1..2 |-> lex.values[i] * biomass ]
  IN  [ model |-> Exit(lex.model),
        inside |-> lex.model,
        feasibility |-> fixed.bound,
        pbar |-> IF pb.open THEN [pb EXCEPT !.n = @ + 1, !.desc = tt] ELSE pb,
        ret |-> IF fixed.bound > 0 THEN <<>> ELSE fluxes ]

dynamic_system(m, pb, tt, yy) ==
  LET biomass == yy[1]
      m1 == add_dynamic_bounds(Enter(m), yy)
      m2 == add_lp_feasibility(m1)
      fixed == fix_objective_as_constraint(m2)
      lex == add_lexicographic_constraints(
               fixed.model, <<"Biomass_Ecoli_core", "EX_glc__D_e">>, <<"max", "max">>)
      fluxes == [ i \in 1..2 |-> lex.values[i] * biomass ]
  IN  [ model |-> Exit(lex.model),
        inside |-> lex.model,
        feasibility |-> fixed.bound,
        pbar |-> IF pb.open THEN [pb EXCEPT !.n = @ + 1, !.desc = tt] ELSE pb,
        ret |-> fluxes ]

\* feasibility + epsilon
infeasible_event_plus_epsilon(m, tt, yy) ==
  LET m1 == add_dynamic_bounds(Enter(m), yy)
      m2 == add_lp_feasibility(m1)
      fixed == fix_objective_as_constraint(m2)
  IN  [ model |-> Exit(fixed.model),
        inside |-> fixed.model,
        feasibility |-> fixed.bound,
        ret |-> <<fixed.bound * EpsilonScale + epsilon>> ]

infeasible_event(m, tt, yy) ==
  LET m1 == add_dynamic_bounds(Enter(m), yy)
      m2 == add_lp_feasibility(m1)
      fixed == fix_objective_as_constraint(m2)
  IN  [ model |-> Exit(fixed.model),
        inside |-> fixed.model,
        feasibility |-> fixed.bound,
        ret |-> <<fixed.bound * EpsilonScale - epsilon>> ]

RateScale == BiomassScale \div GlucoseScale   \* flux * biomass -> units per tick

NoPbar == [open |-> FALSE, n |-> 0, desc |-> 0]

NoTrial == [ fn |-> "none", t |-> 0, y |-> <<0, 0>>, before |-> Model0,
             inside |-> Model0, feasibility |-> 0, ret |-> <<>> ]

---------------------------------------------------------------------------
(* Evaluations of the two functions on their own, at arbitrary states *)

EvalBiomass == {-10, 0, 10}
EvalGlucose == {-10, 0, 5, 12, 13, 20, 50, 100, 450}
EvalStates == EvalBiomass \X EvalGlucose
EvalTimes == {0, T_END}

Y0 == <<10, 100>>       \* y0 = [0.1, 10]

IvpIdle ==
  /\ status = "idle"
  /\ t = 0
  /\ y = y0
  /\ g = 0
  /\ gs = <<>>
  /\ sol_t = <<>>
  /\ sol_y = <<>>
  /\ t_events = <<>>

Init ==
  /\ model = Model0
  /\ pbar = NoPbar
  /\ trial = NoTrial
  /\ y0 = Y0
  /\ IvpIdle

EvalDynamicSystem ==
  \E tt \in EvalTimes, yy \in EvalStates :
    \E d \in { dynamic_system(model, pbar, tt, yy) } :
        /\ status = "idle"
        /\ trial' = [ fn |-> "dynamic_system", t |-> tt, y |-> yy, before |-> model,
                      inside |-> d.inside, feasibility |-> d.feasibility,
                      ret |-> d.ret ]
        /\ model' = d.model
        /\ pbar' = d.pbar
        /\ UNCHANGED ivp

EvalInfeasibleEvent ==
  \E tt \in EvalTimes, yy \in EvalStates :
    \E e \in { infeasible_event(model, tt, yy) } :
        /\ status = "idle"
        /\ trial' = [ fn |-> "infeasible_event", t |-> tt, y |-> yy, before |-> model,
                      inside |-> e.inside, feasibility |-> e.feasibility,
                      ret |-> e.ret ]
        /\ model' = e.model
        /\ UNCHANGED <<pbar, ivp>>

Next == EvalDynamicSystem \/ EvalInfeasibleEvent

Spec == Init /\ [][Next]_vars

---------------------------------------------------------------------------
(* solve_ivp(fun=dynamic_system, events=[infeasible_event],                *)
(*           t_span=(0, 15), y0=y0, t_eval=ts, method='BDF')               *)
(* The integrator is abstracted to steps of 1..MaxStep ticks along the     *)
(* derivative at the step's start, with a linear dense output.             *)

\* the initial states the integration is started from
Y0Set == { Y0, <<10, 20>>, <<10, 12>>, <<-10, 12>>, <<0, 100>> }

t_eval == 0..T_END      \* ts = np.linspace(0, 15, 100), one point per tick

\* scipy find_active_events
find_active_events(g_old, g_new, dir) ==
  LET up == g_old <= 0 /\ g_new >= 0
      down == g_old >= 0 /\ g_new <= 0
  IN  \/ up /\ dir > 0
      \/ down /\ dir < 0
      \/ (up \/ down) /\ dir = 0

\* dense output of the step from (t0, ya) to (t1, yb)
Dense(t0, ya, t1, yb, tau) ==
  [ i \in 1..2 |-> ya[i] + ((tau - t0) * (yb[i] - ya[i])) \div (t1 - t0) ]

\* the event function along the dense output, the model threaded through
RECURSIVE EventAlong(_, _, _, _, _, _)
EventAlong(m, t0, ya, t1, yb, tau) ==
  IF tau > t1 THEN [ model |-> m, values |-> <<>> ]
  ELSE LET e == infeasible_event(m, tau, Dense(t0, ya, t1, yb, tau))
           rest == EventAlong(e.model, t0, ya, t1, yb, tau + 1)
       IN  [ model |-> rest.model, values |-> <<e.ret[1]>> \o rest.values ]

\* the state the step of length dt from yy along the derivative f arrives at
Advance(yy, dt, f) == [ i \in 1..2 |-> yy[i] + (dt * f[i]) \div RateScale ]

\* step-size control: the steps the integrator accepts
Accepted(y_new) == y_new[2] >= -MaxUndershoot

\* the status after a step
NextStatus(stop, finished) ==
  IF stop THEN "event" ELSE IF finished THEN "finished" ELSE "running"

\* brackets <<lo, hi>> of consecutive ticks between which the event changes sign
Roots(t0, g0, values) ==
  { <<t0 + k - 1, t0 + k>> : k \in
      { k \in 1..Len(values) :
          LET a == IF k = 1 THEN g0 ELSE values[k - 1]
              b == values[k]
          IN  (a <= 0 /\ b >= 0) \/ (a >= 0 /\ b <= 0) } }

InitIvp ==
  /\ model = Model0
  /\ pbar = NoPbar
  /\ trial = NoTrial
  /\ y0 \in Y0Set
  /\ IvpIdle

\* with tqdm() as pbar: dynamic_system.pbar = pbar; solve_ivp(...) up to its loop
Start ==
  \E e \in { infeasible_event(model, 0, y0) } :
      /\ status = "idle"
      /\ status' = "running"
      /\ pbar' = [open |-> TRUE, n |-> 0, desc |-> 0]
      /\ t' = 0
      /\ y' = y0
      /\ g' = e.ret[1]
      /\ gs' = <<e.ret[1]>>
      /\ model' = e.model
      /\ trial' = [ fn |-> "infeasible_event", t |-> 0, y |-> y0, before |-> model,
                    inside |-> e.inside, feasibility |-> e.feasibility, ret |-> e.ret ]
      /\ UNCHANGED <<y0, sol_t, sol_y, t_events>>

\* the end time of a step of h ticks, clipped to the end of the span
StepEnd(h) == IF t + h > T_END THEN T_END ELSE t + h

\* the step sizes the integrator accepts along the derivative f
AcceptedSteps(f) ==
  { h \in 1..MaxStep : Accepted(Advance(y, StepEnd(h) - t, f)) }

\* t_eval[t_eval_i - 1 : t_eval_i_new]: the slice started one point early
TEvalStep_overlap(t_eval_i, t_last) ==
  LET t_eval_i_new == Cardinality({ tau \in t_eval : tau <= t_last })
      from == IF t_eval_i > 0 THEN t_eval_i - 1 ELSE 0
  IN  [ k \in 1..(t_eval_i_new - from) |-> Min(t_eval) + from + k - 1 ]

\* t_eval_step = t_eval[t_eval_i : t_eval_i_new]: the grid points not yet
\* recorded that are at or before t_last, t_eval_i of them being recorded already
TEvalStep(t_eval_i, t_last) ==
  LET t_eval_i_new == Cardinality({ tau \in t_eval : tau <= t_last })
  IN  [ k \in 1..(t_eval_i_new - t_eval_i) |-> Min(t_eval) + t_eval_i + k - 1 ]

\* one iteration of the loop of solve_ivp: solver.step(), the events, t_eval
Step ==
  /\ status = "running"
  /\ \E d \in { dynamic_system(model, pbar, t, y) } :
     IF AcceptedSteps(d.ret) # {}
     THEN
       \E h \in AcceptedSteps(d.ret) :
       \E t_new \in { StepEnd(h) } :
       \E y_new \in { Advance(y, t_new - t, d.ret) } :
       \E e \in { infeasible_event(d.model, t_new, y_new) } :
       \E active \in { find_active_events(g, e.ret[1], direction) } :
       \E along \in { IF active THEN EventAlong(e.model, t, y, t_new, y_new, t + 1)
                                ELSE [ model |-> e.model, values |-> <<>> ] } :
       \E root \in IF active THEN Roots(t, g, along.values) ELSE { <<t_new, t_new>> } :
         LET finished == t_new = T_END
             stop == active /\ terminal
             t_last == IF stop THEN root[1] ELSE t_new
             t_eval_step == TEvalStep(Len(sol_t), t_last)
             n == Len(t_eval_step)
         IN  /\ pbar' = d.pbar
             /\ t' = t_new
             /\ y' = y_new
             /\ g' = e.ret[1]
             /\ gs' = Append(gs, e.ret[1])
             /\ trial' = [ fn |-> "infeasible_event", t |-> t_new, y |-> y_new,
                           before |-> d.model, inside |-> e.inside,
                           feasibility |-> e.feasibility, ret |-> e.ret ]
             /\ model' = along.model
             /\ t_events' = IF active THEN Append(t_events, root) ELSE t_events
             /\ status' = NextStatus(stop, finished)
             /\ sol_t' = sol_t \o t_eval_step
             /\ sol_y' = sol_y \o [ k \in 1..n |->
                                     Dense(t, y, t_new, y_new, t_eval_step[k]) ]
     ELSE
       \* solver.status == 'failed': the required step size is too small
       /\ status' = "failed"
       /\ model' = d.model
       /\ pbar' = d.pbar
       /\ UNCHANGED <<trial, t, y, g, gs, sol_t, sol_y, t_events>>
  /\ UNCHANGED y0

NextIvp == Start \/ Step

SpecIvp == InitIvp /\ [][NextIvp]_vars

---------------------------------------------------------------------------
(* Reference values, computed directly on the flux grid *)

\* the untouched model with the glucose bound of state yy
BoundedAt(yy) == [Model0 EXCEPT !.lower_bound =
                    << -(Vmax * yy[2]), Km * GlucoseScale + yy[2] >>]

\* the LP is feasible at yy
FeasibleAt(yy) == Fluxes(BoundedAt(yy)) # {}

\* the flux distributions of the relaxed problem at yy
RelaxedAt(yy) == Fluxes([BoundedAt(yy) EXCEPT !.variables = {"s_plus", "s_minus"}])

Slack(f) == SPlus(f) + f.s_minus

\* distance of yy from feasibility, and the distributions that attain it
Distance(yy) == Min({ Slack(f) : f \in RelaxedAt(yy) })
Closest(yy) == { f \in RelaxedAt(yy) : Slack(f) = Distance(yy) }

\* the highest biomass flux, and the highest glucose exchange flux at that biomass
\* flux, among the distributions S
BestBiomass(S) == Max({ f.bio : f \in S })
BestGlucoseAt(S, bio) == Max({ f.glc : f \in { c \in S : c.bio = bio } })

v_biomass(yy) == BestBiomass(Closest(yy))
v_glucose(yy) == LET S == Closest(yy) IN BestGlucoseAt(S, BestBiomass(S))

\* a <= b for rationals with positive denominators
RatLeq(a, b) == a[1] * b[2] <= b[1] * a[2]

GlucoseRange == 0..Max(EvalGlucose)

Evaluated == trial.fn # "none"

---------------------------------------------------------------------------
(* Claims on the evaluations (Spec) *)

\* C1: after any sequence of dynamic_system and infeasible_event evaluations the
\* shared model is in its original condition: the lower bound of EX_glc__D_e, the
\* objective, and the sets of variables and constraints are those of the start.
C1_ModelRestored ==
  /\ model.lower_bound = Model0.lower_bound
  /\ model.objective = Model0.objective
  /\ model.variables = Model0.variables
  /\ model.constraints = Model0.constraints
  /\ model.contexts = <<>>

\* an evaluation has changed the bound and the objective and has added the
\* relaxation variables and the three fixed-objective constraints
C1_Witness ==
  /\ trial.fn = "dynamic_system"
  /\ trial.inside.lower_bound # Model0.lower_bound
  /\ trial.inside.variables # {}
  /\ Cardinality(trial.inside.constraints) = 3
  /\ trial.inside.objective # Model0.objective
  /\ trial.t = T_END

\* C4: for glucose g >= 0 add_dynamic_bounds sets the lower bound of EX_glc__D_e to
\* -10*g/(5+g): 0 at g = 0, in (-10, 0], and non-increasing in g.
C4_SaturationBound ==
  (Evaluated /\ trial.y[2] >= 0) =>
    LET glc == trial.y[2]
        lb == trial.inside.lower_bound
    IN  /\ lb[2] > 0
        /\ lb[1] * (Km * GlucoseScale + glc) = -(Vmax * glc) * lb[2]
        /\ glc = 0 => lb[1] = 0
        /\ lb[1] <= 0
        /\ lb[1] > -(Vmax * lb[2])
        /\ \A other \in GlucoseRange :
             LET lo == add_dynamic_bounds(Model0, <<trial.y[1], other>>).lower_bound
             IN  /\ other <= glc => RatLeq(lb, lo)
                 /\ other >= glc => RatLeq(lo, lb)

C4_Witness ==
  /\ Evaluated
  /\ trial.y[2] = Max(EvalGlucose)
  /\ trial.inside.lower_bound[1] < 0
  /\ trial.inside.lower_bound # Model0.lower_bound

\* C5: dynamic_system returns the 2-vector (biomass * v_biomass, biomass * v_glucose)
\* of the specific fluxes of Biomass_Ecoli_core and EX_glc__D_e at the bounds set
\* from y, in the order of the state vector.
C5_Derivative ==
  trial.fn = "dynamic_system" =>
    /\ Len(trial.ret) = 2
    /\ trial.ret[1] = trial.y[1] * v_biomass(trial.y)
    /\ trial.ret[2] = trial.y[1] * v_glucose(trial.y)

C5_Witness ==
  /\ trial.fn = "dynamic_system"
  /\ trial.y[1] > 0
  /\ trial.ret[1] > 0
  /\ trial.ret[2] < 0
  /\ trial.ret[1] # -trial.ret[2]

\* C6: infeasible_event returns the feasibility measure at the bounds set from y
\* minus epsilon: exactly -epsilon when the LP is feasible at y, and positive
\* exactly when the distance from feasibility exceeds epsilon, growing with it.
C6_EventValue ==
  trial.fn = "infeasible_event" =>
    LET value == trial.ret[1]
        dist == Distance(trial.y)
    IN  /\ Len(trial.ret) = 1
        /\ value = dist * EpsilonScale - epsilon
        /\ FeasibleAt(trial.y) => (value = -epsilon /\ value < 0)
        /\ ~FeasibleAt(trial.y) => value > 0
        /\ value > 0 <=> dist * EpsilonScale > epsilon

C6_Witness ==
  /\ trial.fn = "infeasible_event"
  /\ ~FeasibleAt(trial.y)
  /\ trial.ret[1] > EpsilonScale

\* C9: the value dynamic_system or infeasible_event returns for a state y depends
\* only on y: it is the value the untouched model gives at time 0, whatever the
\* time and whatever evaluations were made before.
C9_DependsOnlyOnY ==
  /\ trial.fn = "dynamic_system" =>
       trial.ret = dynamic_system(Model0, NoPbar, 0, trial.y).ret
  /\ trial.fn = "infeasible_event" =>
       trial.ret = infeasible_event(Model0, 0, trial.y).ret

C9_Witness ==
  /\ trial.fn = "infeasible_event"
  /\ trial.t > 0
  /\ trial.before = Model0
  /\ trial.ret[1] < 0

\* the attributes the evaluation changed, in the order it changed them
Changes(m) == [ k \in 1..Len(m.contexts[1]) |-> m.contexts[1][k].attr ]

\* C10: inside one dynamic_system evaluation the glucose bound is set from y, then
\* the feasibility relaxation is added, then the objective is fixed as a
\* constraint, then Biomass_Ecoli_core is maximized and fixed, then EX_glc__D_e is
\* maximized; the glucose flux is the maximum over exactly the flux distributions
\* that attain the maximal biomass flux.
C10_Lexicographic ==
  trial.fn = "dynamic_system" =>
    LET m == trial.inside
        h == m.contexts[1]
        bound == BoundedAt(trial.y).lower_bound
        fixed(k) == CHOOSE c \in h[k].constraints : TRUE
        S == Closest(trial.y)
        bio == BestBiomass(S)
        glc == BestGlucoseAt(S, bio)
    IN  /\ Len(m.contexts) = 1
        /\ Changes(m) = << "lower_bound", "cons_vars", "objective", "direction",
                           "cons_vars", "objective", "direction", "cons_vars",
                           "objective", "direction", "cons_vars" >>
        /\ h[1].lower_bound = Model0.lower_bound
        /\ h[2].lower_bound = bound /\ h[2].variables = {"s_plus", "s_minus"}
        /\ h[2].constraints = {}
        /\ fixed(5) = [ name |-> "feasibility", expression |-> "feasibility",
                        sense |-> "ub", bound |-> Distance(trial.y) ]
        /\ fixed(8) = [ name |-> "Biomass_Ecoli_core",
                        expression |-> "Biomass_Ecoli_core",
                        sense |-> "lb", bound |-> bio ]
        /\ fixed(11) = [ name |-> "EX_glc__D_e", expression |-> "EX_glc__D_e",
                         sense |-> "lb", bound |-> glc ]
        /\ \A f \in S : f.bio <= bio /\ (f.bio = bio => f.glc <= glc)
        /\ \E f \in S : f.bio = bio /\ f.glc = glc
        /\ trial.ret = << trial.y[1] * bio, trial.y[1] * glc >>

\* a state at which a higher glucose flux could be had for less biomass flux
C10_Witness ==
  /\ trial.fn = "dynamic_system"
  /\ LET S == Closest(trial.y)
         bio == BestBiomass(S)
         glc == BestGlucoseAt(S, bio)
     IN  /\ bio > 0
         /\ Max({ f.glc : f \in S }) > glc
         /\ \E f \in S : f.bio = bio /\ f.glc < glc

\* C11: at a state y at which the LP is infeasible dynamic_system signals nothing:
\* it returns a derivative 2-vector, computed from the relaxed problem as at any
\* other state, the feasibility value it computed (positive there) appears
\* nowhere in what it returns, and the run state is untouched; the positive
\* value of infeasible_event at y is the only reaction.
C11_NoInfeasibilitySignal ==
  (trial.fn = "dynamic_system" /\ ~FeasibleAt(trial.y)) =>
    LET S == Closest(trial.y)
        bio == BestBiomass(S)
        glc == BestGlucoseAt(S, bio)
    IN  /\ trial.feasibility = Distance(trial.y)
        /\ trial.feasibility > 0
        /\ Len(trial.ret) = 2
        /\ trial.ret = << trial.y[1] * bio, trial.y[1] * glc >>
        /\ \E f \in RelaxedAt(trial.y) :
             /\ Slack(f) > 0
             /\ trial.ret = << trial.y[1] * f.bio, trial.y[1] * f.glc >>
        /\ status = "idle" /\ t_events = <<>>
        /\ model = trial.before
        /\ infeasible_event(model, trial.t, trial.y).ret[1] > 0

\* an infeasible state with biomass, at which a non-zero derivative came back
C11_Witness ==
  /\ trial.fn = "dynamic_system"
  /\ ~FeasibleAt(trial.y)
  /\ trial.y[1] > 0
  /\ trial.feasibility > 0
  /\ trial.ret[2] < 0

\* C13: add_dynamic_bounds changes the lower bound of EX_glc__D_e and nothing
\* else: the upper bound of that reaction, the bounds of the other reactions,
\* the objective, the variables and the constraints are as before, and the
\* bound set is the same for every biomass component of y.
C13_OnlyLowerBound ==
  Evaluated =>
    LET before == Enter(trial.before)
        after == add_dynamic_bounds(before, trial.y)
        h == trial.inside.contexts[1]
    IN  /\ after.upper_bound = before.upper_bound
        /\ after.bounds = before.bounds
        /\ after.objective = before.objective
        /\ after.variables = before.variables
        /\ after.constraints = before.constraints
        /\ after = [before EXCEPT !.lower_bound = after.lower_bound,
                                  !.contexts = after.contexts]
        /\ Changes(after) = << "lower_bound" >>
        /\ after.contexts[1][1].lower_bound = before.lower_bound
        /\ \A biomass \in EvalBiomass :
             add_dynamic_bounds(before, << biomass, trial.y[2] >>) = after
        /\ h[1] = after.contexts[1][1]
        /\ h[2].lower_bound = after.lower_bound
        /\ trial.inside.lower_bound = after.lower_bound
        /\ trial.inside.upper_bound = before.upper_bound
        /\ trial.inside.bounds = before.bounds

\* the bound was changed at a state with biomass and glucose present
C13_Witness ==
  /\ Evaluated
  /\ trial.y[1] > 0
  /\ trial.y[2] > 0
  /\ trial.inside.lower_bound # trial.before.lower_bound
  /\ trial.inside.upper_bound = GlcUB
  /\ trial.inside.contexts[1][1].attr = "lower_bound"

\* C14: at a state y with biomass >= 0 and glucose >= 0 at which the LP is
\* feasible the glucose component of the derivative dynamic_system returns is at
\* least -biomass * 10*glucose/(5+glucose), and it is zero when biomass is zero
\* or glucose is zero (at zero glucose also where the LP is infeasible).
C14_UptakeLimit ==
  (trial.fn = "dynamic_system" /\ trial.y[1] >= 0 /\ trial.y[2] >= 0) =>
    LET biomass == trial.y[1]
        glucose == trial.y[2]
        dglucose == trial.ret[2]
    IN  /\ FeasibleAt(trial.y) =>
             /\ dglucose * (Km * GlucoseScale + glucose) >= -(biomass * Vmax * glucose)
             /\ (biomass = 0 \/ glucose = 0) => dglucose = 0
        /\ glucose = 0 => dglucose = 0

\* a feasible state at which the limit binds: one more unit of uptake flux
\* would exceed it
C14_Witness ==
  /\ trial.fn = "dynamic_system"
  /\ trial.y[1] > 0
  /\ trial.y[2] > 0
  /\ FeasibleAt(trial.y)
  /\ trial.ret[2] < 0
  /\ (trial.ret[2] - trial.y[1]) * (Km * GlucoseScale + trial.y[2])
       < -(trial.y[1] * Vmax * trial.y[2])
  /\ trial.ret[2] > -(trial.y[1] * GlcUB)

\* zero biomass at a feasible state, and zero glucose: no glucose is consumed
C14_ZeroSeen ==
  /\ trial.fn = "dynamic_system"
  /\ trial.ret[2] = 0
  /\ \/ trial.y[1] = 0 /\ FeasibleAt(trial.y)
     \/ trial.y[2] = 0 /\ trial.y[1] > 0

---------------------------------------------------------------------------
(* Claims on the integration (SpecIvp) *)

Stopped == status \in {"finished", "event", "failed"}

\* the event value rises through zero between step end points i and i + 1
UpCrossing(i) == gs[i] < 0 /\ gs[i + 1] > 0
DownCrossing(i) == gs[i] > 0 /\ gs[i + 1] < 0

Recorded == 1..Len(sol_t)

\* C2: the integration stops at the first time the value of infeasible_event
\* crosses from negative to positive: after that crossing no further step is
\* taken and no trajectory point is recorded, and a crossing from positive to
\* negative never stops the run.
C2_StopsAtUpCrossing ==
  LET n == Len(gs)
  IN  /\ \A i \in 1..(n - 1) : UpCrossing(i) => (i = n - 1 /\ status = "event")
      /\ \A i \in 1..(n - 1) : DownCrossing(i) => ~(i = n - 1 /\ status = "event")
      /\ status = "event" =>
           /\ n >= 2 /\ UpCrossing(n - 1)
           /\ Len(t_events) = 1
           /\ t_events[1][2] = t_events[1][1] + 1
           /\ t_events[1][2] <= t
           /\ \A k \in Recorded : sol_t[k] <= t_events[1][1]
      /\ status # "event" => t_events = <<>>

C2_Witness ==
  /\ status = "event"
  /\ Len(gs) > 2
  /\ UpCrossing(Len(gs) - 1)
  /\ Len(sol_t) > 2
  /\ sol_t[Len(sol_t)] = t_events[1][1]

\* a run that went on after the event value fell from positive to negative
C2_DownCrossingSeen ==
  /\ Len(gs) > 2
  /\ DownCrossing(1)
  /\ status = "running"

\* C3 as stated: for every initial state y0, including one at which the LP is
\* infeasible at t = 0, every recorded point is a state at which the LP is
\* feasible and no recorded time lies after the first infeasible time.
C3_AllRecordedFeasible ==
  /\ \A k \in Recorded : FeasibleAt(sol_y[k])
  /\ \A i \in 1..(Len(gs) - 1) : gs[i] < 0

\* C3 amended: for every initial state y0 at which the LP is feasible, every
\* recorded point is a state at which the LP is feasible (infeasible_event is
\* negative there) and no recorded time lies after the first infeasible time.
C3_RecordedFeasibleFromFeasibleStart ==
  FeasibleAt(y0) =>
    /\ \A k \in Recorded :
         /\ FeasibleAt(sol_y[k])
         /\ Distance(sol_y[k]) * EpsilonScale - epsilon < 0
    /\ \A i \in 1..(Len(gs) - 1) : gs[i] < 0
    /\ status = "event" => \A k \in Recorded : sol_t[k] <= t_events[1][1]
    /\ (status = "running" /\ gs # <<>>) => gs[Len(gs)] < 0

C3_Witness ==
  /\ FeasibleAt(y0)
  /\ status = "event"
  /\ Len(sol_t) > 2
  /\ y[2] < sol_y[Len(sol_y)][2]
  /\ ~FeasibleAt(y)

\* C7: the run from y0 = (0.1, 10) over 0..15 ends through the infeasibility
\* event and not at the end of the span: the status is 'termination event',
\* one event time is recorded, it is less than 15, and every recorded time is
\* at most the event time.
C7_NotebookRun ==
  (y0 = Y0 /\ Stopped) =>
    /\ status = "event"
    /\ Len(t_events) = 1
    /\ t_events[1][2] < T_END
    /\ \A k \in Recorded : sol_t[k] <= t_events[1][1]
    /\ sol_t # <<>> /\ sol_y[1] = Y0
    /\ ~FeasibleAt(y)

C7_Witness ==
  /\ y0 = Y0
  /\ status = "event"
  /\ t < T_END
  /\ Len(sol_t) > 2

\* C12: the recorded trajectory is a prefix of the grid t_eval: the recorded
\* times are strictly increasing grid points taken in grid order with none
\* skipped, the first is t = 0 with state y0, every grid point up to the time
\* reached (up to the event, in a run the event stopped) is recorded, and there
\* is exactly one state pair per recorded time.
C12_PrefixOfGrid ==
  /\ Len(sol_y) = Len(sol_t)
  /\ Len(sol_t) <= Cardinality(t_eval)
  /\ \A k \in Recorded :
       /\ sol_t[k] \in t_eval
       /\ Cardinality({ tau \in t_eval : tau < sol_t[k] }) = k - 1
       /\ k > 1 => sol_t[k] > sol_t[k - 1]
       /\ DOMAIN sol_y[k] = 1..2
       /\ sol_y[k][1] \in Int /\ sol_y[k][2] \in Int
  /\ sol_t # <<>> => (sol_t[1] = 0 /\ sol_y[1] = y0)
  /\ status \in {"running", "finished"} =>
       (sol_t # <<>> => sol_t[Len(sol_t)] = t)
  /\ (status = "running" /\ t > 0) => sol_t # <<>>
  /\ status = "finished" => Len(sol_t) = Cardinality(t_eval)
  /\ status = "event" =>
       \A tau \in t_eval : tau <= t_events[1][1] => \E k \in Recorded : sol_t[k] = tau

\* a run stopped by the event after steps of different lengths, with a proper
\* prefix of the grid recorded
C12_Witness ==
  /\ status = "event"
  /\ Len(sol_t) > 3
  /\ Len(sol_t) < Cardinality(t_eval)
  /\ Len(gs) > 2
  /\ Len(gs) < Len(sol_t)
  /\ sol_y[Len(sol_y)] # y0

\* C15: along the recorded trajectory of a run started with positive biomass
\* and positive glucose, biomass never decreases and glucose never increases
\* from one recorded time to the next, and both are non-negative at every
\* recorded time.
C15_MonotoneTrajectory ==
  (y0[1] > 0 /\ y0[2] > 0) =>
    \A k \in Recorded :
      /\ sol_y[k][1] >= 0
      /\ sol_y[k][2] >= 0
      /\ k > 1 => /\ sol_y[k][1] >= sol_y[k - 1][1]
                  /\ sol_y[k][2] <= sol_y[k - 1][2]

\* a stopped run in which biomass has grown and glucose has fallen, over
\* several recorded times
C15_Witness ==
  /\ y0[1] > 0 /\ y0[2] > 0
  /\ Stopped
  /\ Len(sol_y) > 3
  /\ sol_y[Len(sol_y)][1] > y0[1]
  /\ sol_y[Len(sol_y)][2] < y0[2]
  /\ y[2] < 0

C8_Inv ==
  /\ status \in {"idle", "running", "finished", "event"}
  /\ t \in 0..T_END
  /\ status = "running" => t < T_END
  /\ status = "finished" => (t = T_END /\ t_events = <<>>)
  /\ status = "event" => Len(t_events) = 1

C8_Act ==
  /\ status = "idle" => status' = "running"
  /\ status = "running" => (t' > t /\ status' \in {"running", "finished", "event"})
  /\ Stopped => UNCHANGED ivp

====
